---- MODULE Spec2Model ----
(***************************************************************************)
(* Model of app/jobs/fetchPackageExtra.js: fetchExtraData runs five field  *)
(* fetchers for every requested package and writes their results to the    *)
(* packageExtra store; aggregateExtraData then rebuilds the aggregated     *)
(* mapping from the stored fields.                                         *)
(***************************************************************************)
EXTENDS Integers, Sequences, FiniteSets, TLC

\* Longest list of package names handed to fetchExtraData.
MaxLen == 2
\* Largest stargazers_count the hosting API reports for one repository.
MaxStars == 1

Pkgs == {"com.foo.bar", "com.baz.qux"}

(***************************************************************************)
(* JavaScript values.  Every value is a record of the same shape so that   *)
(* values of different types can be compared.                              *)
(***************************************************************************)
Val(t, n, s) == [t |-> t, n |-> n, s |-> s]
Undefined == Val("undefined", 0, "")
Null == Val("null", 0, "")
NaN == Val("NaN", 0, "")
Num(n) == Val("number", n, "")
Str(s) == Val("string", 0, s)

\* JavaScript truthiness: undefined, null, NaN, 0 and "" are falsy.
Truthy(v) ==
  CASE v.t = "number" -> v.n # 0
    [] v.t = "string" -> v.s # ""
    [] OTHER -> FALSE

\* a || b
Or(a, b) == IF Truthy(a) THEN a ELSE b

\* a + b on numbers
Plus(a, b) == Num(a.n + b.n)

(***************************************************************************)
(* The external services.  `detail` says how varied their answers are in   *)
(* a run: "rich" draws every shape of answer, "coarse" a few of them.      *)
(* `steady` says whether they are unchanging: a steady service gives the   *)
(* answer it gave before whenever a request is repeated.                   *)
(***************************************************************************)
VARIABLES
  detail,        \* "rich" or "coarse"
  steady,        \* whether a repeated request gets the same answer
  answers,       \* the answers given so far, by request (kept when steady)
  pass,          \* the number of fetchExtraData calls made
  once,          \* the store as the previous fetchExtraData call left it
  catalog,       \* the package names packageExists accepts
  packageNames,  \* fetchExtraData's argument
  pc,            \* position in run / fetchExtraData / aggregateExtraData
  i,             \* index of the for loop of fetchExtraData
  pkg,           \* the descriptor loadPackage returned
  store,         \* packageExtra: the five fields of every package
  aggregated,    \* packageExtra: the aggregated extra data
  aggNames,      \* aggregateExtraData: packageNames
  j,             \* aggregateExtraData: index of the for loop
  aggData,       \* aggregateExtraData: aggData
  invoked,       \* per list position, the fetchers invoked for it
  aggSets,       \* number of setAggregatedExtraData calls
  last           \* what the last step did: its call, answer, write and log entries

vars ==
  <<detail, steady, answers, pass, once, catalog, packageNames, pc, i, pkg, store,
    aggregated, aggNames, j, aggData, invoked, aggSets, last>>

Fetchers == {"updatedTime", "unityVersion", "stars", "ogImage", "readme"}

\* An HTTP answer that is an error: axios rejects with error.response.status,
\* or with no response at all on a network error.
Failed(status) == [status |-> status]
NoResp == [status |-> "none"]
HttpErrors(d) ==
  IF d = "rich" THEN {Failed("404"), Failed("500"), Failed("network")}
  ELSE {Failed("404"), Failed("500")}

\* https://package.openupm.com/<name>: dist-tags.latest, versions[latest].unity
\* and time[latest].  hasVersion: versions has an entry for the latest tag.
GoodTime == "1970-01-01T00:00:01.000Z"
RegistryData(latest, hasVersion, unity, time) ==
  [status |-> "200", latest |-> latest, hasVersion |-> hasVersion,
   unity |-> unity, time |-> time]
RegistryAnswers(d) ==
  HttpErrors(d) \cup
  IF d = "rich"
  THEN {RegistryData(Undefined, FALSE, Undefined, Undefined)} \cup
       {RegistryData(Str("1.0.0"), FALSE, Undefined, t) :
          t \in {Undefined, Str("soon"), Str(GoodTime)}} \cup
       {RegistryData(Str("1.0.0"), TRUE, u, t) :
          u \in {Undefined, Str("2019.4")},
          t \in {Undefined, Str("soon"), Str(GoodTime)}}
  ELSE {RegistryData(Str("1.0.0"), TRUE, Str("2019.4"), Str(GoodTime))}

\* https://api.github.com/repos/<repo>: stargazers_count and
\* parent.stargazers_count (parent: Undefined when the answer has no parent).
RepoInfo(count, parent) ==
  [status |-> "200", stargazers_count |-> count, parent |-> parent]
RepoAnswers(d) ==
  IF d = "rich"
  THEN HttpErrors(d) \cup
       {RepoInfo(c, p) :
          c \in {Undefined} \cup {Num(n) : n \in 0..MaxStars},
          p \in {Undefined} \cup {Num(n) : n \in 0..MaxStars}}
  ELSE {Failed("500"), RepoInfo(Num(1), Undefined)}

\* https://github.com/<repo>: the content of meta[property='og:image'],
\* Undefined when the page has no such tag.
AvatarUrl == "https://avatars.githubusercontent.com/u/1"
ImageOf(repo) ==
  IF repo = "owner/repo" THEN "https://repository-images.githubusercontent.com/1"
  ELSE "https://repository-images.githubusercontent.com/2"
Page(og) == [status |-> "200", og |-> og]
PageAnswers(d, repo) ==
  IF d = "rich"
  THEN HttpErrors(d) \cup
       {Page(Undefined), Page(Str(AvatarUrl)), Page(Str(ImageOf(repo)))}
  ELSE {Failed("500"), Page(Str(ImageOf(repo)))}

\* https://api.github.com/repos/<repo>/readme
ReadmeAnswers(d) ==
  (IF d = "rich" THEN HttpErrors(d) ELSE {Failed("500")}) \cup
  {[status |-> "200", text |-> Str("# readme")]}

\* loadPackage: the descriptor of a package, with or without a parent repo.
Descriptors ==
  {[repo |-> "owner/repo", parentRepo |-> p] : p \in {Undefined, Str("upstream/repo")}}
NoPkg == [repo |-> "", parentRepo |-> Undefined]
LoadOutcomes == Descriptors \cup {Failed("throw")}

(***************************************************************************)
(* The packageExtra store: set(field, name, value) keeps the value, get    *)
(* returns it, Null when nothing is stored.                                *)
(***************************************************************************)
EmptyEntry ==
  [time |-> Null, unity |-> Null, stars |-> Null, imageUrl |-> Null, readme |-> Null]
OldEntry ==
  [time |-> Num(1000), unity |-> Str("2019.4"), stars |-> Num(1),
   imageUrl |-> Str(ImageOf("owner/repo")), readme |-> Str("# readme")]

setValue(s, name, field, value) == [s EXCEPT ![name][field] = value]
getValue(s, name, field) == s[name][field]

\* The aggregated extra data: a mapping from package names to records.
EmptyMap == [p \in {} |-> Undefined]
Put(m, name, data) ==
  [p \in DOMAIN m \cup {name} |-> IF p = name THEN data ELSE m[p]]

\* The answers a request can get: any of S, or the one it got before.  The
\* requests are the URL fetched for a package, its loadPackage call, and the
\* set calls of the store (a steady store accepts all of them or none).
Request(kind, name, field) == <<kind, name, field>>
Ask(request, S) ==
  IF steady /\ request \in DOMAIN answers THEN {answers[request]} ELSE S
Remember(given, request, answer) ==
  IF steady THEN Put(given, request, answer) ELSE given

\* One record of the aggregated extra data.
Record(stars, unity, imageUrl, time) ==
  [stars |-> stars, unity |-> unity, imageUrl |-> imageUrl, time |-> time]

\* What a step did: the call, the package, the answers it got, the value it
\* stored (NoWrite when it stored nothing), the set calls and the log entries.
\* The record an earlier run aggregated for a package it had fetched.
OldRecord == Record(Num(1), Str("2019.4"), Str(ImageOf("owner/repo")), Num(1000))

NoWrite == Val("nowrite", 0, "")
Did(op, name, resp, resp2, wrote, sets, logs) ==
  [op |-> op, name |-> name, resp |-> resp, resp2 |-> resp2, wrote |-> wrote,
   sets |-> sets, logs |-> logs]

(***************************************************************************)
(* run (lines 203-208): the names come from the command line or, with      *)
(* --all, from loadPackageNames; an empty list prints the help and exits.  *)
(***************************************************************************)
ListsOver(S) == UNION {[1..n -> S] : n \in 1..MaxLen}

InitCommon ==
  /\ answers = EmptyMap
  /\ pass = 1
  /\ catalog \in SUBSET Pkgs
  /\ pc = "for"
  /\ i = 1
  /\ pkg = NoPkg
  /\ store \in [Pkgs -> {EmptyEntry, OldEntry}]
  /\ once = [p \in Pkgs |-> EmptyEntry]
  /\ aggregated = [p \in {q \in Pkgs : store[q] = OldEntry} |-> OldRecord]
  /\ aggNames = <<>>
  /\ j = 1
  /\ aggData = EmptyMap
  /\ invoked = [k \in 1..Len(packageNames) |-> {}]
  /\ aggSets = 0
  /\ last = Did("start", "", NoResp, NoResp, NoWrite, 0, 0)

Init ==
  /\ steady = FALSE
  /\ \/ /\ detail = "coarse"
        /\ packageNames \in ListsOver(Pkgs)
     \/ /\ detail = "rich"
        /\ packageNames \in {<<p>> : p \in Pkgs}
  /\ InitCommon

\* A run against steady services.
InitSteady ==
  /\ steady = TRUE
  /\ detail = "coarse"
  /\ packageNames \in ListsOver(Pkgs)
  /\ InitCommon

(***************************************************************************)
(* fetchExtraData (lines 21-38).                                           *)
(***************************************************************************)
packageExists(name) == name \in catalog

\* Where the for loop goes after the package at position k was rejected.
afterRejectBreak(k) == [pc |-> "for", i |-> Len(packageNames) + 1]
afterReject(k) == [pc |-> "for", i |-> k + 1]

Control ==
  <<detail, steady, pass, once, catalog, packageNames, aggNames, j, aggData, aggSets>>

\* Lines 24 and 38: the list is exhausted, fetchExtraData returns.
fetchExtraData_return_early ==
  /\ pc = "for"
  /\ pc' = "fetched"
  /\ last' = Did("return", "", NoResp, NoResp, NoWrite, 0, 0)
  /\ UNCHANGED <<Control, answers, i, pkg, store, aggregated, invoked>>
fetchExtraData_return ==
  /\ pc = "for"
  /\ i > Len(packageNames)
  /\ pc' = "fetched"
  /\ last' = Did("return", "", NoResp, NoResp, NoWrite, 0, 0)
  /\ UNCHANGED <<Control, answers, i, pkg, store, aggregated, invoked>>

\* Lines 26-29: the package does not exist: log and continue.
fetchExtraData_continue ==
  /\ pc = "for"
  /\ i <= Len(packageNames)
  /\ ~packageExists(packageNames[i])
  /\ pc' = afterReject(i).pc
  /\ i' = afterReject(i).i
  /\ last' = Did("reject", packageNames[i], NoResp, NoResp, NoWrite, 0, 1)
  /\ UNCHANGED <<Control, answers, pkg, store, aggregated, invoked>>

\* Line 31: loadPackage returns the descriptor.
loadPackage ==
  /\ pc = "for"
  /\ i <= Len(packageNames)
  /\ packageExists(packageNames[i])
  /\ \E d \in Ask(Request("loadPackage", packageNames[i], ""), LoadOutcomes) :
       /\ d \in Descriptors
       /\ pkg' = d
       /\ answers' = Remember(answers, Request("loadPackage", packageNames[i], ""), d)
  /\ pc' = "updatedTime"
  /\ last' = Did("loadPackage", packageNames[i], NoResp, NoResp, NoWrite, 0, 0)
  /\ UNCHANGED <<Control, i, store, aggregated, invoked>>

\* Line 31: loadPackage throws; nothing in fetchExtraData or run catches it.
loadPackage_throws ==
  /\ pc = "for"
  /\ i <= Len(packageNames)
  /\ packageExists(packageNames[i])
  /\ Failed("throw") \in Ask(Request("loadPackage", packageNames[i], ""), LoadOutcomes)
  /\ answers' =
       Remember(answers, Request("loadPackage", packageNames[i], ""), Failed("throw"))
  /\ pc' = "failed"
  /\ last' = Did("loadPackage", packageNames[i], Failed("throw"), NoResp, NoWrite, 0, 0)
  /\ UNCHANGED <<Control, i, pkg, store, aggregated, invoked>>

(***************************************************************************)
(* The five fetchers.  Each is one step: the request, the computation of   *)
(* the value, the set call and the catch block.                            *)
(***************************************************************************)
\* The request a fetcher makes: both registry fetchers get the same URL.
UrlOf(op) ==
  CASE op \in {"updatedTime", "unityVersion"} -> "registry"
    [] op = "stars" -> "repos"
    [] op = "ogImage" -> "page"
    [] op = "readme" -> "readme"

\* The end of a fetcher for packageNames[i] (the descriptor goes out of scope
\* with the loop body): `attempt` is the value handed to
\* the store (NoWrite when no set call is made), `ok` whether the set call
\* succeeds (a failed one throws into the fetcher's catch block, which logs).
Finish(op, field, next, nexti, resp, resp2, attempt, ok, logs) ==
  LET name == packageNames[i]
      written == attempt # NoWrite /\ ok
      asked == Remember(answers, Request(UrlOf(op), name, ""), resp)
      asked2 ==
        IF resp2 = NoResp THEN asked
        ELSE Remember(asked, Request("parent page", name, ""), resp2)
  IN /\ answers' =
          IF attempt = NoWrite THEN asked2
          ELSE Remember(asked2, Request("set", "", ""), ok)
     /\ store' = IF written THEN setValue(store, name, field, attempt) ELSE store
     /\ last' = Did(op, name, resp, resp2,
                     IF written THEN attempt ELSE NoWrite,
                     IF attempt # NoWrite THEN 1 ELSE 0,
                     logs + (IF attempt # NoWrite /\ ~ok THEN 1 ELSE 0))
     /\ invoked' = [invoked EXCEPT ![i] = @ \cup {op}]
     /\ pc' = next
     /\ i' = nexti
     /\ pkg' = IF next = "for" THEN NoPkg ELSE pkg
     /\ UNCHANGED <<Control, aggregated>>

\* Line 59: error.response && error.response.status == 404.
is404OrAbove(error) == error.status \in {"404", "500"}
is404(error) == error.status = "404"

\* new Date(timeStr).getTime()
DateGetTime(timeStr) ==
  CASE timeStr = Num(0) -> Num(0)
    [] timeStr = Str(GoodTime) -> Num(1000)
    [] OTHER -> NaN

\* Lines 156-159: the time passed to setUpdatedTime; NoWrite when the
\* request failed.
updatedTimeOrZero(resp) ==
  IF resp.status # "200" THEN Num(0)
  ELSE LET version == resp.latest
           timeStr == Or(IF version = Undefined THEN Undefined ELSE resp.time, Num(0))
       IN DateGetTime(timeStr)
updatedTimeOf(resp) ==
  IF resp.status # "200" THEN NoWrite
  ELSE LET version == resp.latest
           timeStr == Or(IF version = Undefined THEN Undefined ELSE resp.time, Num(0))
       IN DateGetTime(timeStr)

\* Lines 161-163: the catch block logs every error.
updatedTimeLogs(resp) == IF resp.status # "200" THEN 1 ELSE 0

_fetchUpdatedTime ==
  /\ pc = "updatedTime"
  /\ \E resp \in Ask(Request("registry", packageNames[i], ""), RegistryAnswers(detail)),
        ok \in Ask(Request("set", "", ""), BOOLEAN) :
       Finish("updatedTime", "time", "unityVersion", i, resp, NoResp,
              updatedTimeOf(resp), ok, updatedTimeLogs(resp))

\* Lines 53-56: the error thrown before the set call, Failed("none") if none:
\* the request's error, or a TypeError when versions has no latest entry.
unityError(resp) ==
  IF resp.status # "200" THEN resp
  ELSE IF resp.latest = Undefined \/ ~resp.hasVersion THEN Failed("TypeError")
  ELSE Failed("none")

\* Line 57: if (unity) setUnityVersion(packageName, unity).
unityOf(resp) ==
  IF unityError(resp) # Failed("none") THEN NoWrite
  ELSE IF Truthy(resp.unity) THEN resp.unity
  ELSE NoWrite

\* Lines 58-61: every error but a 404 is logged.
unityLogs(resp) ==
  IF unityError(resp) # Failed("none") /\ ~is404(unityError(resp)) THEN 1 ELSE 0

_fetchUnityVersion ==
  /\ pc = "unityVersion"
  /\ \E resp \in Ask(Request("registry", packageNames[i], ""), RegistryAnswers(detail)),
        ok \in Ask(Request("set", "", ""), BOOLEAN) :
       Finish("unityVersion", "unity", "stars", i, resp, NoResp,
              unityOf(resp), ok, unityLogs(resp))

\* Lines 78-80.
starsOfRepoOnly(repoInfo) == Plus(Num(0), Or(repoInfo.stargazers_count, Num(0)))
starsOf(repoInfo) ==
  Plus(Plus(Num(0), Or(repoInfo.stargazers_count, Num(0))),
       Or(repoInfo.parent, Num(0)))

_fetchStars_adding ==
  /\ pc = "stars"
  /\ \E resp \in Ask(Request("repos", packageNames[i], ""), RepoAnswers(detail)),
        ok \in Ask(Request("set", "", ""), BOOLEAN) :
       Finish("stars", "stars", "ogImage", i, resp, NoResp,
              IF resp.status = "200"
              THEN Plus(Or(getValue(store, packageNames[i], "stars"), Num(0)),
                        starsOf(resp))
              ELSE NoWrite, ok,
              IF resp.status = "200" THEN 0 ELSE 1)

_fetchStars ==
  /\ pc = "stars"
  /\ \E resp \in Ask(Request("repos", packageNames[i], ""), RepoAnswers(detail)),
        ok \in Ask(Request("set", "", ""), BOOLEAN) :
       Finish("stars", "stars", "ogImage", i, resp, NoResp,
              IF resp.status = "200" THEN starsOf(resp) ELSE NoWrite, ok,
              IF resp.status = "200" THEN 0 ELSE 1)

\* Line 101: /^https:\/\/avatar/.test(ogImageUrl); undefined does not match.
isAvatar(ogImageUrl) == ogImageUrl = Str(AvatarUrl)

\* Lines 94-109: the og:image of one repository page.
_fetchOGImageForRepo(resp) ==
  IF resp.status # "200" THEN Str("")
  ELSE IF isAvatar(resp.og) THEN Str("")
  ELSE resp.og

\* Line 113: whether the parent repository's page is fetched.
fetchesParent(imageUrl, descriptor) == ~Truthy(imageUrl) /\ Truthy(descriptor.parentRepo)

\* Lines 111-122.
_fetchOGImage ==
  /\ pc = "ogImage"
  /\ \E resp \in Ask(Request("page", packageNames[i], ""), PageAnswers(detail, pkg.repo)),
        ok \in Ask(Request("set", "", ""), BOOLEAN) :
       LET imageUrl == _fetchOGImageForRepo(resp)
           logs == IF resp.status # "200" THEN 1 ELSE 0
       IN IF fetchesParent(imageUrl, pkg)
          THEN \E resp2 \in Ask(Request("parent page", packageNames[i], ""),
                                 PageAnswers(detail, pkg.parentRepo.s)) :
                 Finish("ogImage", "imageUrl", "readme", i, resp, resp2,
                        _fetchOGImageForRepo(resp2), ok,
                        logs + (IF resp2.status # "200" THEN 1 ELSE 0))
          ELSE Finish("ogImage", "imageUrl", "readme", i, resp, NoResp,
                      imageUrl, ok, logs)

\* Lines 128-142; the next package follows (line 24).
_fetchReadme_throwing ==
  /\ pc = "readme"
  /\ \E resp \in Ask(Request("readme", packageNames[i], ""), ReadmeAnswers(detail)),
        ok \in Ask(Request("set", "", ""), BOOLEAN) :
       IF resp.status = "200"
       THEN Finish("readme", "readme", IF ok THEN "for" ELSE "failed",
                   IF ok THEN i + 1 ELSE i, resp, NoResp, resp.text, ok, 0)
       ELSE Finish("readme", "readme", "for", i + 1, resp, NoResp, NoWrite, ok, 1)
_fetchReadme ==
  /\ pc = "readme"
  /\ \E resp \in Ask(Request("readme", packageNames[i], ""), ReadmeAnswers(detail)),
        ok \in Ask(Request("set", "", ""), BOOLEAN) :
       Finish("readme", "readme", "for", i + 1, resp, NoResp,
              IF resp.status = "200" THEN resp.text ELSE NoWrite, ok,
              IF resp.status = "200" THEN 0 ELSE 1)

(***************************************************************************)
(* aggregateExtraData (lines 169-191), called by run when fetchExtraData   *)
(* has returned (lines 206-207).                                           *)
(***************************************************************************)
\* loadPackageNames: the names of the package files, each once, in any order.
Listings ==
  {<<>>} \cup {<<p>> : p \in Pkgs} \cup
  UNION {{<<p, q>> : q \in Pkgs \ {p}} : p \in Pkgs}

Fetched ==
  <<detail, steady, answers, pass, once, catalog, packageNames, i, pkg, store, invoked>>

\* Line 172: const aggData = {}.
mergedAggData == aggregated
newAggData == EmptyMap

\* Lines 171-172.
loadPackageNames ==
  /\ pc = "fetched"
  /\ \E names \in Listings : aggNames' = names
  /\ j' = 1
  /\ aggData' = newAggData
  /\ pc' = "aggFor"
  /\ last' = Did("loadPackageNames", "", NoResp, NoResp, NoWrite, 0, 0)
  /\ UNCHANGED <<Fetched, aggregated, aggSets>>

\* Line 171: loadPackageNames throws.
loadPackageNames_throws ==
  /\ pc = "fetched"
  /\ pc' = "failed"
  /\ last' = Did("loadPackageNames", "", Failed("throw"), NoResp, NoWrite, 0, 0)
  /\ UNCHANGED <<Fetched, aggregated, aggNames, j, aggData, aggSets>>

\* Lines 175-178.
aggregate_break ==
  /\ pc = "aggFor"
  /\ j <= Len(aggNames)
  /\ ~packageExists(aggNames[j])
  /\ j' = Len(aggNames) + 1
  /\ last' = Did("aggReject", aggNames[j], NoResp, NoResp, NoWrite, 0, 1)
  /\ UNCHANGED <<Fetched, pc, aggregated, aggNames, aggData, aggSets>>
aggregate_continue ==
  /\ pc = "aggFor"
  /\ j <= Len(aggNames)
  /\ ~packageExists(aggNames[j])
  /\ j' = j + 1
  /\ last' = Did("aggReject", aggNames[j], NoResp, NoResp, NoWrite, 0, 1)
  /\ UNCHANGED <<Fetched, pc, aggregated, aggNames, aggData, aggSets>>

\* Lines 179-187: the record of one package from its four stored fields.
dataOfEmptyImage(entry) ==
  Record(Or(entry.stars, Num(0)), Or(entry.unity, Str("2018.1")),
         Or(entry.imageUrl, Str("")), Or(entry.time, Undefined))
dataOf(entry) ==
  Record(Or(entry.stars, Num(0)), Or(entry.unity, Str("2018.1")),
         Or(entry.imageUrl, Undefined), Or(entry.time, Undefined))

\* Lines 179-188.
aggregate_package_saving ==
  /\ pc = "aggFor"
  /\ j <= Len(aggNames)
  /\ packageExists(aggNames[j])
  /\ aggData' = Put(aggData, aggNames[j],
                    dataOf([f \in {"stars", "unity", "imageUrl", "time"} |->
                              getValue(store, aggNames[j], f)]))
  /\ aggregated' = aggData'
  /\ j' = j + 1
  /\ last' = Did("aggregate", aggNames[j], NoResp, NoResp, NoWrite, 0, 0)
  /\ UNCHANGED <<Fetched, pc, aggNames, aggSets>>
aggregate_package_with_readme ==
  /\ pc = "aggFor"
  /\ j <= Len(aggNames)
  /\ packageExists(aggNames[j])
  /\ aggData' =
       Put(aggData, aggNames[j],
           LET data == dataOf([f \in {"stars", "unity", "imageUrl", "time"} |->
                                 getValue(store, aggNames[j], f)])
           IN [stars |-> data.stars, unity |-> data.unity, imageUrl |-> data.imageUrl,
               time |-> data.time, readme |-> getValue(store, aggNames[j], "readme")])
  /\ j' = j + 1
  /\ last' = Did("aggregate", aggNames[j], NoResp, NoResp, NoWrite, 0, 0)
  /\ UNCHANGED <<Fetched, pc, aggregated, aggNames, aggSets>>
aggregate_package ==
  /\ pc = "aggFor"
  /\ j <= Len(aggNames)
  /\ packageExists(aggNames[j])
  /\ aggData' = Put(aggData, aggNames[j],
                    dataOf([f \in {"stars", "unity", "imageUrl", "time"} |->
                              getValue(store, aggNames[j], f)]))
  /\ j' = j + 1
  /\ last' = Did("aggregate", aggNames[j], NoResp, NoResp, NoWrite, 0, 0)
  /\ UNCHANGED <<Fetched, pc, aggregated, aggNames, aggSets>>

\* Lines 180-186: one of the four get calls throws.
aggregate_throws ==
  /\ pc = "aggFor"
  /\ j <= Len(aggNames)
  /\ packageExists(aggNames[j])
  /\ pc' = "failed"
  /\ last' = Did("aggregate", aggNames[j], Failed("throw"), NoResp, NoWrite, 0, 0)
  /\ UNCHANGED <<Fetched, aggregated, aggNames, j, aggData, aggSets>>

\* Line 190: the whole mapping is replaced by aggData.
setAggregatedExtraData ==
  /\ pc = "aggFor"
  /\ j > Len(aggNames)
  /\ aggregated' = aggData
  /\ aggSets' = aggSets + 1
  /\ pc' = "done"
  /\ last' = Did("setAggregatedExtraData", "", NoResp, NoResp, NoWrite, 1, 0)
  /\ UNCHANGED <<Fetched, aggNames, j, aggData>>

\* Line 190: the set call throws.
setAggregatedExtraData_throws ==
  /\ pc = "aggFor"
  /\ j > Len(aggNames)
  /\ aggSets' = aggSets + 1
  /\ pc' = "failed"
  /\ last' = Did("setAggregatedExtraData", "", Failed("throw"), NoResp, NoWrite, 1, 0)
  /\ UNCHANGED <<Fetched, aggregated, aggNames, j, aggData>>

Next ==
  \/ fetchExtraData_return
  \/ fetchExtraData_continue
  \/ loadPackage
  \/ loadPackage_throws
  \/ _fetchUpdatedTime
  \/ _fetchUnityVersion
  \/ _fetchStars
  \/ _fetchOGImage
  \/ _fetchReadme
  \/ loadPackageNames
  \/ loadPackageNames_throws
  \/ aggregate_continue
  \/ aggregate_package
  \/ aggregate_throws
  \/ setAggregatedExtraData
  \/ setAggregatedExtraData_throws

Spec == Init /\ [][Next]_vars

(***************************************************************************)
(* Enrichment run again: fetchExtraData is called a second time with the   *)
(* same list before aggregateExtraData.                                    *)
(***************************************************************************)
fetchExtraData_again ==
  /\ pc = "fetched"
  /\ pass = 1
  /\ pass' = 2
  /\ once' = store
  /\ pc' = "for"
  /\ i' = 1
  /\ invoked' = [k \in 1..Len(packageNames) |-> {}]
  /\ last' = Did("start", "", NoResp, NoResp, NoWrite, 0, 0)
  /\ UNCHANGED <<detail, steady, answers, catalog, packageNames, pkg, store,
                 aggregated, aggNames, j, aggData, aggSets>>

\* aggregateExtraData after the second call, running to its end.
NextTwice ==
  \/ fetchExtraData_return
  \/ fetchExtraData_continue
  \/ loadPackage
  \/ loadPackage_throws
  \/ _fetchUpdatedTime
  \/ _fetchUnityVersion
  \/ _fetchStars
  \/ _fetchOGImage
  \/ _fetchReadme
  \/ fetchExtraData_again
  \/ (pass = 2 /\ loadPackageNames)
  \/ aggregate_continue
  \/ aggregate_package
  \/ setAggregatedExtraData

SpecTwice == InitSteady /\ [][NextTwice]_vars

(***************************************************************************)
(* Properties.                                                             *)
(***************************************************************************)
Positions == 1..Len(packageNames)
FetchPcs == {"for"} \cup Fetchers

\* The step is fetcher `op` running for packageNames[i].
FetcherStep(op) == pc = op /\ last'.op = op

\* C1: whatever fails during the run, fetchExtraData attempts every
\* requested package: once it has ended, all five fetchers have been invoked
\* for every position of the list whose name passes the existence check.
C1_EveryPackageAttempted ==
  pc \notin FetchPcs =>
    \A k \in Positions : packageExists(packageNames[k]) => invoked[k] = Fetchers

\* The fetch behind a fetcher step failed: a network error, a non-success
\* status, or an answer without the fields the fetcher reads.
FetchFailed(d) ==
  CASE d.op = "updatedTime" ->
         d.resp.status # "200" \/ d.resp.latest = Undefined \/ d.resp.time = Undefined
    [] d.op = "unityVersion" ->
         d.resp.status # "200" \/ d.resp.latest = Undefined \/ ~d.resp.hasVersion
    [] d.op = "stars" ->
         d.resp.status # "200" \/ d.resp.stargazers_count = Undefined
    [] d.op = "ogImage" ->
         d.resp.status # "200" /\ d.resp2.status # "200"
    [] d.op = "readme" -> d.resp.status # "200"
    [] OTHER -> FALSE

FieldOf(op) ==
  CASE op = "updatedTime" -> "time"
    [] op = "unityVersion" -> "unity"
    [] op = "stars" -> "stars"
    [] op = "ogImage" -> "imageUrl"
    [] op = "readme" -> "readme"

\* C2: when a fetcher's fetch fails, the value stored for its field and
\* package after the fetcher returns is the value stored before it ran.
C2_FailedFetchKeepsValue ==
  [][\A op \in Fetchers :
       (FetcherStep(op) /\ FetchFailed(last')) =>
         getValue(store', last'.name, FieldOf(op)) =
           getValue(store, last'.name, FieldOf(op))]_vars

\* The step taken for a requested name the existence check rejects.
C3_RejectStep ==
  (pc = "for" /\ i <= Len(packageNames) /\ ~packageExists(packageNames[i])) =>
    /\ store' = store
    /\ aggregated' = aggregated
    /\ last'.name = packageNames[i]
    /\ last'.logs = 1
    /\ last'.sets = 0
    /\ pc' = "for"
    /\ i' = i + 1

\* No fetcher is invoked for a position whose name is rejected.
C3_NoFetcherForRejected ==
  \A k \in Positions : ~packageExists(packageNames[k]) => invoked[k] = {}

\* C3: a requested name the existence check rejects gets no store write,
\* exactly one log entry and no fetcher, and the loop goes on with the next
\* position of the list.
C3_RejectedIsSkipped == []C3_NoFetcherForRejected /\ [][C3_RejectStep]_vars

\* The first name of a list of two was rejected with one log entry and the
\* loop stands at the second.
C3_Witness ==
  /\ Len(packageNames) = 2
  /\ last.op = "reject"
  /\ last.name = packageNames[1]
  /\ last.logs = 1
  /\ pc = "for"
  /\ i = 2
  /\ packageExists(packageNames[2])

\* C4: the stored updatedTime of a package changes only in a
\* _fetchUpdatedTime step for it, and its stored runtimeVersion only in a
\* _fetchUnityVersion step for it, and neither changes when the registry
\* answers not-found: such a package keeps both values through enrichment.
C4_NotFoundKeepsRegistryFields ==
  [][\A p \in Pkgs :
       /\ getValue(store', p, "time") # getValue(store, p, "time") =>
            (FetcherStep("updatedTime") /\ last'.name = p /\ last'.resp.status # "404")
       /\ getValue(store', p, "unity") # getValue(store, p, "unity") =>
            (FetcherStep("unityVersion") /\ last'.name = p /\ last'.resp.status # "404")]_vars

\* The registry answered not-found to _fetchUnityVersion and the package
\* still has the runtimeVersion and updatedTime it had.
C4_Witness ==
  /\ last.op = "unityVersion"
  /\ last.resp = Failed("404")
  /\ getValue(store, last.name, "unity") = Str("2019.4")
  /\ getValue(store, last.name, "time") = Num(1000)

\* The count of an answer of the hosting API, 0 when it carries none.
CountOf(v) == IF v.t = "number" THEN v.n ELSE 0

\* C5: after a successful _fetchStars the stored starCount is the primary
\* repository's count plus the parent's when the answer carries a parent and
\* the primary's count alone otherwise; aggregation reports 0 stars for a
\* package with no stored starCount.
C5_StarsSum ==
  /\ (last.op = "stars" /\ last.wrote # NoWrite) =>
        getValue(store, last.name, "stars") =
          Num(IF last.resp.parent # Undefined
              THEN CountOf(last.resp.stargazers_count) + CountOf(last.resp.parent)
              ELSE CountOf(last.resp.stargazers_count))
  /\ (last.op = "aggregate" /\ last.resp = NoResp
        /\ getValue(store, last.name, "stars") = Null) =>
        aggData[last.name].stars = Num(0)

\* A primary repository with a parent, both with stars: the sum is stored.
C5_Witness ==
  /\ last.op = "stars"
  /\ last.resp.status = "200"
  /\ last.resp.stargazers_count = Num(1)
  /\ last.resp.parent = Num(1)
  /\ getValue(store, last.name, "stars") = Num(2)

\* A page yields a usable image: it was fetched, it has an og:image and
\* that is not an auto-generated avatar.
Usable(resp) ==
  /\ resp.status = "200"
  /\ resp.og.t = "string"
  /\ resp.og.s # ""
  /\ resp.og.s # AvatarUrl

\* C6: _fetchOGImage fetches the parent repository's page exactly when the
\* primary page yields no usable image and the descriptor has a parent, and
\* writes the primary's usable image, else the parent's usable image, else
\* the empty string.
C6_FallbackChain ==
  last.op = "ogImage" =>
    /\ (last.resp2 # NoResp) <=> (~Usable(last.resp) /\ pkg.parentRepo # Undefined)
    /\ last.wrote # NoWrite =>
         last.wrote =
           IF Usable(last.resp) THEN last.resp.og
           ELSE IF last.resp2 # NoResp /\ Usable(last.resp2) THEN last.resp2.og
           ELSE Str("")

\* The names an aggregation run enumerated.
Enumerated == {aggNames[k] : k \in 1..Len(aggNames)}

\* C7 as stated: after aggregateExtraData the keys of the aggregated mapping
\* are exactly the enumerated names.
C7_KeysAreEnumerated == pc = "done" => DOMAIN aggregated = Enumerated

\* C7, amended: after aggregateExtraData the keys of the aggregated mapping
\* are exactly the enumerated names that pass the existence check; the
\* previous mapping contributes nothing.
C7_KeysAreEnumeratedExisting ==
  pc = "done" => DOMAIN aggregated = {p \in Enumerated : packageExists(p)}

\* A package the previous mapping held and whose fields are still stored is
\* not enumerated any more and is gone from the new, non-empty mapping.
C7_Witness ==
  /\ pc = "done"
  /\ aggregated # EmptyMap
  /\ \E p \in Pkgs :
       /\ store[p] = OldEntry
       /\ p \notin Enumerated
       /\ p \notin DOMAIN aggregated

\* The record the aggregator is to build from the stored fields of a package:
\* an image or a time counts as resolved when a non-empty string, respectively
\* a non-zero number, is stored.
ExpectedRecord(name) ==
  LET stars == getValue(store, name, "stars")
      unity == getValue(store, name, "unity")
      imageUrl == getValue(store, name, "imageUrl")
      time == getValue(store, name, "time")
  IN [stars |-> IF stars = Null THEN Num(0) ELSE stars,
      unity |-> IF unity = Null THEN Str("2018.1") ELSE unity,
      imageUrl |-> IF imageUrl.t = "string" /\ imageUrl.s # "" THEN imageUrl
                   ELSE Undefined,
      time |-> IF time.t = "number" /\ time.n # 0 THEN time ELSE Undefined]

\* C8: the record of an aggregated package is built from its four stored
\* fields: stars, or 0 when none is stored; runtimeVersion, or "2018.1" when
\* none is stored; coverImageUrl and updatedTime, or the absent marker when
\* not resolved; the absent marker is neither the empty string nor zero.
C8_RecordDefaults ==
  /\ Undefined # Str("")
  /\ Undefined # Num(0)
  /\ (last.op = "aggregate" /\ last.resp = NoResp) =>
        aggData[last.name] = ExpectedRecord(last.name)

\* A package with no stars stored and an empty image stored was aggregated.
C8_Witness ==
  /\ last.op = "aggregate"
  /\ last.resp = NoResp
  /\ getValue(store, last.name, "stars") = Null
  /\ getValue(store, last.name, "unity") = Null
  /\ getValue(store, last.name, "imageUrl") = Str("")
  /\ getValue(store, last.name, "time") = Num(0)
  /\ aggData[last.name] = Record(Num(0), Str("2018.1"), Undefined, Undefined)

\* C9: with unchanging external answers, fetchExtraData twice and then
\* aggregateExtraData gives the aggregated mapping that fetchExtraData once
\* and then aggregateExtraData gives: the mapping aggregated after the second
\* call is the one aggregateExtraData builds, for the same enumeration, from
\* the store as the first call left it.
C9_EnrichmentIdempotent ==
  (pc = "done" /\ pass = 2) =>
    aggregated =
      [p \in {q \in Enumerated : packageExists(q)} |->
         dataOf([f \in {"stars", "unity", "imageUrl", "time"} |-> getValue(once, p, f)])]

\* Two packages were enriched twice and aggregated; one fetch succeeded both
\* times and another failed both times.
C9_Witness ==
  /\ pc = "done"
  /\ pass = 2
  /\ Len(packageNames) = 2
  /\ DOMAIN aggregated = Pkgs
  /\ \E p \in Pkgs :
       /\ store[p].stars = Num(1)
       /\ store[p].time = Null
       /\ answers[Request("registry", p, "")].status # "200"
       /\ aggregated[p].stars = Num(1)
       /\ aggregated[p].time = Undefined

\* A step that changes the aggregated mapping is the first set call of the
\* run, ends it, and stores the records of all enumerated existing packages.
C10_WriteIsComplete ==
  aggregated' # aggregated =>
    /\ pc = "aggFor"
    /\ pc' = "done"
    /\ aggSets = 0
    /\ aggregated' =
         [p \in {q \in Enumerated : packageExists(q)} |-> ExpectedRecord(p)]

\* C10: an aggregateExtraData run writes the aggregated mapping at most
\* once, and only with the complete new mapping; a run that fails before
\* that write leaves the previously stored mapping as it was.
C10_NoPartialAggregation ==
  [](aggSets <= 1) /\ [][C10_WriteIsComplete]_vars
    /\ [][pc' = "failed" => aggregated' = aggregated]_vars

\* A run failed on its second package, with one record built, and the
\* previous mapping is still stored.
C10_Witness ==
  /\ pc = "failed"
  /\ last.op = "aggregate"
  /\ j = 2
  /\ aggData # EmptyMap
  /\ aggregated = [p \in Pkgs |-> OldRecord]
  /\ aggData # aggregated

\* The fetchers that precede `op` in the loop body of fetchExtraData.
Before(op) ==
  CASE op = "updatedTime" -> {}
    [] op = "unityVersion" -> {"updatedTime"}
    [] op = "stars" -> {"updatedTime", "unityVersion"}
    [] op = "ogImage" -> {"updatedTime", "unityVersion", "stars"}
    [] op = "readme" -> {"updatedTime", "unityVersion", "stars", "ogImage"}

\* aggregateExtraData has been called.
Aggregating ==
  \/ pc \in {"fetched", "aggFor", "done"}
  \/ pc = "failed" /\ last.op \in {"loadPackageNames", "aggregate", "setAggregatedExtraData"}

\* A fetcher step for `op` finds exactly the fetchers before it invoked for
\* the current position and adds itself.
C11_InOrderStep ==
  \A op \in Fetchers :
    FetcherStep(op) =>
      /\ invoked[i] = Before(op)
      /\ invoked' = [invoked EXCEPT ![i] = Before(op) \cup {op}]
      /\ last'.name = packageNames[i]

\* Positions before the current one are finished, later ones untouched, and
\* the current one has had exactly the fetchers before the next one.
C11_OnePackageAtATime ==
  \A k \in Positions :
    /\ k < i => invoked[k] = (IF packageExists(packageNames[k]) THEN Fetchers ELSE {})
    /\ k > i => invoked[k] = {}
    /\ k = i => invoked[k] = (IF pc \in Fetchers THEN Before(pc) ELSE {})

\* C11: the five fetchers of a package run one at a time in the order
\* updatedTime, runtimeVersion, starCount, coverImageUrl, readmeText; all
\* five of position N have finished before any of position N+1 starts; and
\* aggregateExtraData starts only after the loop has gone through the whole
\* list.
C11_StrictlySequential ==
  /\ [](C11_OnePackageAtATime /\ (Aggregating => i = Len(packageNames) + 1))
  /\ [][C11_InOrderStep]_vars

\* Two packages were both enriched completely before the aggregator read
\* the enumerator.
C11_Witness ==
  /\ pc = "aggFor"
  /\ last.op = "loadPackageNames"
  /\ Len(packageNames) = 2
  /\ invoked[1] = Fetchers
  /\ invoked[2] = Fetchers

\* C12: _fetchUpdatedTime makes its set call only when the registry answer
\* has a latest tag and a parseable time for it; when the tag or the time is
\* missing or the time cannot be parsed it makes no set call and logs.
C12_TimeWrittenOnlyWhenParsed ==
  last.op = "updatedTime" =>
    LET parsed ==
          /\ last.resp.status = "200"
          /\ last.resp.latest # Undefined
          /\ DateGetTime(last.resp.time) \notin {Num(0), NaN}
    IN /\ last.sets = 1 => parsed
       /\ (last.resp.status = "200" /\ ~parsed) => (last.sets = 0 /\ last.logs >= 1)

\* The latest version of the registry answer declares a minimum Unity version.
Declares(resp) ==
  /\ resp.status = "200"
  /\ resp.latest # Undefined
  /\ resp.hasVersion
  /\ resp.unity # Undefined

\* C13: _fetchUnityVersion makes its set call exactly when the registry
\* request succeeds and the latest version declares a unity field, and that
\* call stores the field unless the store fails, which is logged; with the
\* field absent there is no write and no log entry; on not-found no write and
\* no log entry; on every other failure no write and one log entry.
C13_UnityVersionOutcomes ==
  last.op = "unityVersion" =>
    LET resp == last.resp
        absent == resp.status = "200" /\ resp.latest # Undefined /\ resp.hasVersion
                    /\ resp.unity = Undefined
    IN /\ last.sets = 1 <=> Declares(resp)
       /\ last.wrote # NoWrite => (last.wrote = resp.unity /\ last.logs = 0)
       /\ (Declares(resp) /\ last.wrote = NoWrite) => last.logs = 1
       /\ absent => (last.wrote = NoWrite /\ last.logs = 0)
       /\ resp.status = "404" => (last.wrote = NoWrite /\ last.logs = 0)
       /\ (~Declares(resp) /\ ~absent /\ resp.status # "404") =>
            (last.wrote = NoWrite /\ last.logs = 1)

\* The registry answered with a server error: nothing written, one log entry,
\* the stored version kept.
C13_Witness ==
  /\ last.op = "unityVersion"
  /\ last.resp = Failed("500")
  /\ last.sets = 0
  /\ last.logs = 1
  /\ getValue(store, last.name, "unity") = Str("2019.4")

\* C14: every _fetchOGImage invocation makes exactly one set call for the
\* package, and the value it stores is a string, the empty string when no
\* image was resolved.
C14_OneStringWrite ==
  last.op = "ogImage" =>
    /\ last.sets = 1
    /\ last.wrote # NoWrite =>
         /\ last.wrote.t = "string"
         /\ getValue(store, last.name, "imageUrl") = last.wrote

\* C15: for each of the five fetchers a not-found answer of its source is
\* silent (no log entry), and any other failure of the fetch (an error
\* status, a network error, an answer without the fields read) is logged.
\* Steps whose set call the store rejected are left aside: that log entry is
\* the store's.
C15_NotFoundSilentOthersLogged ==
  (last.op \in Fetchers /\ (last.sets = 0 \/ last.wrote # NoWrite)) =>
    /\ (last.resp.status = "404" /\ last.resp2.status \in {"none", "200", "404"}) =>
         last.logs = 0
    /\ (last.resp.status # "404" /\ FetchFailed(last)) => last.logs >= 1

\* The value a fetcher hands to the store, from the answers it got alone.
ValueOf(op, resp, resp2) ==
  CASE op = "updatedTime" -> updatedTimeOf(resp)
    [] op = "unityVersion" -> unityOf(resp)
    [] op = "stars" -> IF resp.status = "200" THEN starsOf(resp) ELSE NoWrite
    [] op = "ogImage" ->
         IF resp2 = NoResp THEN _fetchOGImageForRepo(resp)
         ELSE _fetchOGImageForRepo(resp2)
    [] op = "readme" -> IF resp.status = "200" THEN resp.text ELSE NoWrite

\* A step that changes a stored field is the step of the fetcher owning the
\* field, running for that package; a fetcher step makes at most one set
\* call, of a value computed from the answers it got, and leaves the
\* aggregated mapping alone; the aggregator leaves the fields alone.
C16_Step ==
  /\ \A p \in Pkgs, f \in DOMAIN EmptyEntry :
       getValue(store', p, f) # getValue(store, p, f) =>
         \E op \in Fetchers :
           FetcherStep(op) /\ FieldOf(op) = f /\ packageNames[i] = p
  /\ \A op \in Fetchers :
       FetcherStep(op) =>
         /\ last'.sets <= 1
         /\ aggregated' = aggregated
         /\ last'.wrote \in {NoWrite, ValueOf(op, last'.resp, last'.resp2)}
         /\ getValue(store', packageNames[i], FieldOf(op)) =
              IF last'.wrote # NoWrite THEN last'.wrote
              ELSE getValue(store, packageNames[i], FieldOf(op))
  /\ aggregated' # aggregated => (pc = "aggFor" /\ store' = store)
  /\ pc \in {"fetched", "aggFor"} => store' = store

\* C16: single writer per key: a fetcher invoked for a package writes at most
\* once and only its own field of that package, from the answers it got and
\* no stored field; the other fields, the other packages and the aggregated
\* mapping stay as they were; the aggregator writes the aggregated mapping
\* only.
C16_SingleWriterPerKey == [][C16_Step]_vars

\* _fetchStars replaced a stored count by the sum it fetched, with the other
\* fields of the package, another package and the previous mapping in place.
C16_Witness ==
  /\ last.op = "stars"
  /\ last.resp = RepoInfo(Num(1), Num(1))
  /\ getValue(store, last.name, "stars") = Num(2)
  /\ getValue(store, last.name, "imageUrl") = OldEntry.imageUrl
  /\ getValue(store, last.name, "readme") = OldEntry.readme
  /\ \E q \in Pkgs \ {last.name} : store[q] = OldEntry /\ q \in DOMAIN aggregated

\* Where fetchExtraData goes after a fetcher has returned.
NextPc(op) ==
  CASE op = "updatedTime" -> "unityVersion"
    [] op = "unityVersion" -> "stars"
    [] op = "stars" -> "ogImage"
    [] op = "ogImage" -> "readme"
    [] op = "readme" -> "for"

\* C17: no fetcher raises past its boundary: whatever the answer of the
\* external call and whether or not the store accepts the set call, the step
\* of a fetcher ends with fetchExtraData at the next fetcher (after
\* _fetchReadme: at the next position of the list), and the run never fails
\* in a fetcher.
C17_NoFetcherRaises ==
  /\ [](pc = "failed" => last.op \notin Fetchers)
  /\ [][\A op \in Fetchers :
          pc = op =>
            /\ last'.op = op
            /\ pc' = NextPc(op)
            /\ i' = (IF op = "readme" THEN i + 1 ELSE i)]_vars

\* The store rejected the readme of the first of two packages; the error was
\* logged and the loop stands at the second package.
C17_Witness ==
  /\ last.op = "readme"
  /\ last.resp.status = "200"
  /\ last.sets = 1
  /\ last.wrote = NoWrite
  /\ last.logs = 1
  /\ pc = "for"
  /\ i = 2
  /\ Len(packageNames) = 2

\* The step of aggregateExtraData for an enumerated name the existence check
\* rejects: one log entry, no record, on to the next name.
C18_RejectStep ==
  (pc = "aggFor" /\ j <= Len(aggNames) /\ ~packageExists(aggNames[j])) =>
    /\ last'.name = aggNames[j]
    /\ last'.logs = 1
    /\ aggData' = aggData
    /\ aggregated' = aggregated
    /\ pc' = "aggFor"
    /\ j' = j + 1

\* C18: during aggregation an enumerated name that fails the existence check
\* is logged and gets no record, every other enumerated name gets its
\* record, and the one set call of the mapping is still made.
C18_RejectedNameIsLeftOut ==
  /\ [][C18_RejectStep]_vars
  /\ [](pc = "aggFor" =>
          DOMAIN aggData = {aggNames[k] : k \in {n \in 1..(j - 1) : packageExists(aggNames[n])}})
  /\ [](pc = "done" =>
          /\ aggSets = 1
          /\ \A p \in Enumerated :
               IF packageExists(p)
               THEN p \in DOMAIN aggregated /\ aggregated[p] = ExpectedRecord(p)
               ELSE p \notin DOMAIN aggregated)

\* The first of two enumerated names was rejected and the second has its
\* record in the mapping that was written.
C18_Witness ==
  /\ pc = "done"
  /\ aggSets = 1
  /\ Len(aggNames) = 2
  /\ ~packageExists(aggNames[1])
  /\ aggNames[1] \notin DOMAIN aggregated
  /\ aggNames[2] \in DOMAIN aggregated

\* C19: a run ends only once aggregateExtraData has made its set call of the
\* mapping: as long as it has not, a step of the run is possible, whatever
\* fetches have failed.  A run that ends in aggregateExtraData's own calls
\* (the enumerator, the reads of the store) is left aside.
C19_EndsOnlyAfterBulkWrite ==
  \/ aggSets = 1
  \/ pc = "failed" /\ last.op \in {"loadPackageNames", "aggregate"}
  \/ ENABLED Next

\* The four fields of every package the aggregator reads.
FourFields(s) ==
  [p \in Pkgs |-> [f \in {"stars", "unity", "imageUrl", "time"} |-> s[p][f]]]

\* The mapping as a function of the enumerator's output (the names and the
\* existence check) and the four fields.
AggregateOf(names, exists, four) ==
  [p \in {names[k] : k \in 1..Len(names)} \cap exists |-> dataOf(four[p])]

\* C20: the mapping aggregateExtraData writes is a function of the
\* enumerator's output and of the stored stars, unity, imageUrl and time of
\* the packages, and of nothing else: not of a stored readme, not of the
\* mapping stored before.
C20_FunctionOfFourFields ==
  pc = "done" => aggregated = AggregateOf(aggNames, catalog, FourFields(store))

\* A package that was not in the previous mapping and has a readme stored is
\* in the new one, with the default for the stars it has not got.
C20_Witness ==
  /\ pc = "done"
  /\ \E p \in DOMAIN aggregated :
       /\ getValue(store, p, "readme") = Str("# readme")
       /\ getValue(store, p, "stars") = Null
       /\ aggregated[p] = dataOf(FourFields(store)[p])
       /\ \E q \in Pkgs \ {p} : store[q] = OldEntry /\ q \notin DOMAIN aggregated

====
